---- MODULE Spec2Model ----
(***************************************************************************)
(* Model of the Apache access-log scripts parsing_1.py and parsing_2.py.   *)
(*                                                                         *)
(* A text is a sequence of one-character strings.  The regular expressions *)
(* of the two scripts are matched on that sequence the way Python's re     *)
(* module matches them under re.MULTILINE, datetime.strptime, replace,     *)
(* isocalendar, list.sort and bisect_left are computed as CPython computes *)
(* them, and main() of parsing_2.py (and the module body of parsing_1.py)  *)
(* is a state machine with one action per statement group.                 *)
(***************************************************************************)
EXTENDS Integers, Sequences, FiniteSets, TLC

\* The longest input text, in lines.
MaxLines == 3

(***************************************************************************)
(* Characters and character classes of the regular expressions.            *)
(***************************************************************************)
NL == "\n"
DQ == "\""

DigitChars == <<"0", "1", "2", "3", "4", "5", "6", "7", "8", "9">>

UpperChars ==
    <<"A", "B", "C", "D", "E", "F", "G", "H", "I", "J", "K", "L", "M",
      "N", "O", "P", "Q", "R", "S", "T", "U", "V", "W", "X", "Y", "Z">>

LowerChars ==
    <<"a", "b", "c", "d", "e", "f", "g", "h", "i", "j", "k", "l", "m",
      "n", "o", "p", "q", "r", "s", "t", "u", "v", "w", "x", "y", "z">>

Range(f) == {f[x] : x \in DOMAIN f}

\* \d
Digit == Range(DigitChars)

Letter == Range(UpperChars) \cup Range(LowerChars)

\* \w
Word == Digit \cup Letter \cup {"_"}

\* [_0-9.A-Za-z-]
Token == Digit \cup Letter \cup {"_", ".", "-"}

\* [0-9-]
Size == Digit \cup {"-"}

(***************************************************************************)
(* Matching primitives.  Positions are 1-based; a position Len(s)+1 is the *)
(* end of the text.                                                        *)
(***************************************************************************)

\* The position after the longest run of characters of the class that
\* starts at p (p itself when the run is empty): a greedy [class]* .
RECURSIVE RunEnd(_, _, _)
RunEnd(s, p, class) ==
    IF p > Len(s) \/ s[p] \notin class THEN p ELSE RunEnd(s, p + 1, class)

\* The same for the characters other than c: a greedy [^c]* .
RECURSIVE RunTo(_, _, _)
RunTo(s, p, c) ==
    IF p > Len(s) \/ s[p] = c THEN p ELSE RunTo(s, p + 1, c)

\* s has the character c at position p.
At(s, p, c) == p >= 1 /\ p <= Len(s) /\ s[p] = c

\* ^ under re.MULTILINE: the start of the text or just after a newline.
LineStart(s, p) == p = 1 \/ At(s, p - 1, NL)

\* $ under re.MULTILINE: the end of the text or just before a newline.
LineEnd(s, p) == p = Len(s) + 1 \/ At(s, p, NL)

\* \d{2}\/\w{3}\/\d{4}:\d{2}:\d{2}:\d{2} -\d{4} , one entry per character:
\* "d" is \d, "w" is \w, anything else is the literal character.
DatePattern ==
    <<"d", "d", "/", "w", "w", "w", "/", "d", "d", "d", "d", ":",
      "d", "d", ":", "d", "d", ":", "d", "d", " ", "-", "d", "d", "d", "d">>

MatchDate(s, p) ==
    /\ p + Len(DatePattern) - 1 <= Len(s)
    /\ \A k \in 1..Len(DatePattern) :
          LET c == s[p + k - 1]
              t == DatePattern[k]
          IN  IF t = "d" THEN c \in Digit
              ELSE IF t = "w" THEN c \in Word
              ELSE c = t

\* " \d{3} [0-9-]+$ with the closing quote at q: the position of the end
\* of the match, or 0.
MatchTail(s, q) ==
    LET e == RunEnd(s, q + 6, Size)
    IN  IF /\ At(s, q, DQ)
           /\ At(s, q + 1, " ")
           /\ q + 4 <= Len(s)
           /\ \A k \in 2..4 : s[q + k] \in Digit
           /\ At(s, q + 5, " ")
           /\ e > q + 6
           /\ LineEnd(s, e)
        THEN e
        ELSE 0

\* The end of the token that starts after the space at position e.
TokenAfter(s, e) == RunEnd(s, e + 1, Token)

NoHead == [ok |-> FALSE]

\* ^host( identity)? userid \[date\] \" at p, the first token ending at h,
\* the second at a and the third (if there is one) at b: the tokens, the
\* position of the date and the position r where the request starts; ok is
\* FALSE without a match.  The optional group is tried first; it is given
\* up when no user id and bracket follow it.
HeadAt(s, p, h, a, b) ==
    LET three == /\ b > a + 1
                 /\ At(s, b, " ")
                 /\ At(s, b + 1, "[")
        d == IF three THEN b + 2 ELSE a + 2
    IN  IF /\ LineStart(s, p)
           /\ h > p
           /\ At(s, h, " ")
           /\ a > h + 1
           /\ At(s, a, " ")
           /\ (three \/ At(s, a + 1, "["))
           /\ MatchDate(s, d)
           /\ At(s, d + 26, "]")
           /\ At(s, d + 27, " ")
           /\ At(s, d + 28, DQ)
        THEN [ok |-> TRUE,
              start |-> p,
              host |-> SubSeq(s, p, h - 1),
              identity |-> IF three THEN <<SubSeq(s, h + 1, a - 1)>> ELSE <<>>,
              user |-> IF three THEN SubSeq(s, a + 1, b - 1)
                                ELSE SubSeq(s, h + 1, a - 1),
              date |-> d,
              r |-> d + 29]
        ELSE NoHead

MatchHead(s, p) ==
    HeadAt(s, p,
           RunEnd(s, p, Token),
           TokenAfter(s, RunEnd(s, p, Token)),
           TokenAfter(s, TokenAfter(s, RunEnd(s, p, Token))))

(***************************************************************************)
(* The two regular expressions.  A match is [ok, start, host, identity,    *)
(* user, date, request, status, size, end]: the groups as character        *)
(* sequences (identity is <<>> for None and <<token>> otherwise), date the *)
(* 26 characters between the brackets, start the position of the match and *)
(* end the position after it.                                              *)
(***************************************************************************)
NoMatch == [ok |-> FALSE]

\* The match with the head hd and the closing quote at q (0: there is none).
MkMatch(s, hd, q) ==
    IF q = 0 THEN NoMatch
    ELSE [ok |-> TRUE,
          start |-> hd.start,
          host |-> hd.host,
          identity |-> hd.identity,
          user |-> hd.user,
          date |-> SubSeq(s, hd.date, hd.date + 25),
          request |-> SubSeq(s, hd.r, q - 1),
          status |-> SubSeq(s, q + 2, q + 4),
          size |-> SubSeq(s, q + 6, MatchTail(s, q) - 1),
          end |-> MatchTail(s, q)]

\* parsing_2.py: the request is (.*) , greedy and without newlines, so it
\* runs to the last double quote of the line that the tail matches after.
LastClose(s, r) ==
    LET qs == {q \in r..(RunTo(s, r, NL) - 1) : MatchTail(s, q) # 0}
    IN  IF qs = {} THEN 0 ELSE CHOOSE x \in qs : \A y \in qs : y <= x

\* parsing_1.py: the request is [^"]* , which takes newlines too, so it
\* runs to the first double quote after the opening one.
FirstClose(s, r) ==
    LET q == RunTo(s, r, DQ)
    IN  IF MatchTail(s, q) # 0 THEN q ELSE 0

Request2(s, hd) == IF hd.ok THEN MkMatch(s, hd, LastClose(s, hd.r)) ELSE NoMatch

Request1(s, hd) == IF hd.ok THEN MkMatch(s, hd, FirstClose(s, hd.r)) ELSE NoMatch

\* APACHE_LOG_REGEX of parsing_2.py, tried at position p.
Regex2At(s, p) == Request2(s, MatchHead(s, p))

\* APACHE_LOG_REGEX of parsing_1.py, tried at position p.
Regex1At(s, p) == Request1(s, MatchHead(s, p))

\* APACHE_LOG_REGEX of parsing_<v>.py, tried at position p.
RegexAt(v, s, p) == IF v = 1 THEN Regex1At(s, p) ELSE Regex2At(s, p)

\* The position after the next newline at or after p.
NextLine(s, p) == RunTo(s, p, NL) + 1

\* re.finditer / re.findall: the non-overlapping matches from left to
\* right.  A match can only start at a line start and ends at a line end,
\* so the scan goes from line start to line start: after the match m tried
\* at p, or after the line at p when m is no match.
RECURSIVE FindIter(_, _, _)
ScanOn(v, s, p, m) ==
    IF m.ok THEN <<m>> \o FindIter(v, s, m.end + 1)
    ELSE FindIter(v, s, NextLine(s, p))

FindIter(v, s, p) ==
    IF p > Len(s) THEN <<>> ELSE ScanOn(v, s, p, RegexAt(v, s, p))

(***************************************************************************)
(* datetime.  A datetime is [year, month, day, hour, minute, second, tz],  *)
(* tz being <<>> for a naive datetime and <<utcoffset in minutes>> for an  *)
(* aware one; a date is <<year, month, day>>.                              *)
(***************************************************************************)

\* int() of one digit and of the n digits of s that start at p.
DigitVal(c) == (CHOOSE k \in 1..10 : DigitChars[k] = c) - 1

RECURSIVE IntAt(_, _, _)
IntAt(s, p, n) ==
    IF n = 0 THEN 0 ELSE IntAt(s, p, n - 1) * 10 + DigitVal(s[p + n - 1])

\* str.lower() of one character.
ToLower(c) ==
    IF \E k \in 1..26 : UpperChars[k] = c
    THEN LowerChars[CHOOSE k \in 1..26 : UpperChars[k] = c]
    ELSE c

\* The month abbreviations of %b in the C locale.
MonthNames ==
    <<<<"J", "a", "n">>, <<"F", "e", "b">>, <<"M", "a", "r">>,
      <<"A", "p", "r">>, <<"M", "a", "y">>, <<"J", "u", "n">>,
      <<"J", "u", "l">>, <<"A", "u", "g">>, <<"S", "e", "p">>,
      <<"O", "c", "t">>, <<"N", "o", "v">>, <<"D", "e", "c">>>>

Lower(w) == [k \in 1..Len(w) |-> ToLower(w[k])]

\* The number of the month named by the three characters w, or 0: strptime
\* looks the lower-cased name up among the lower-cased abbreviations.
MonthNumber(w) ==
    IF \E m \in 1..12 : Lower(MonthNames[m]) = Lower(w)
    THEN CHOOSE m \in 1..12 : Lower(MonthNames[m]) = Lower(w)
    ELSE 0

IsLeap(y) == y % 4 = 0 /\ (y % 100 # 0 \/ y % 400 = 0)

DaysInMonth(y, m) ==
    IF m = 2 THEN (IF IsLeap(y) THEN 29 ELSE 28)
    ELSE IF m \in {4, 6, 9, 11} THEN 30
    ELSE 31

DaysBeforeYear(y) ==
    (y - 1) * 365 + ((y - 1) \div 4) - ((y - 1) \div 100) + ((y - 1) \div 400)

RECURSIVE DaysBeforeMonth(_, _)
DaysBeforeMonth(y, m) ==
    IF m = 1 THEN 0 ELSE DaysBeforeMonth(y, m - 1) + DaysInMonth(y, m - 1)

\* date.toordinal(): 1 for 0001-01-01.
Ymd2Ord(y, m, d) == DaysBeforeYear(y) + DaysBeforeMonth(y, m) + d

\* The datetime constructor's checks on the fields strptime hands it.
ValidFields(y, m, d, hh, mm, ss) ==
    /\ y >= 1
    /\ m \in 1..12
    /\ d >= 1
    /\ d <= DaysInMonth(y, m)
    /\ hh \in 0..23
    /\ mm \in 0..59
    /\ ss \in 0..59

NoDate == [ok |-> FALSE]

\* datetime.strptime(w, "%d/%b/%Y:%H:%M:%S %z") on the 26 characters the
\* regular expression captured: ok is FALSE where it raises ValueError
\* (a field the directive's own pattern refuses, then the range checks of
\* datetime and timezone).
Strptime2(w) ==
    LET d == IntAt(w, 1, 2)
        m == MonthNumber(SubSeq(w, 4, 6))
        y == IntAt(w, 8, 4)
        hh == IntAt(w, 13, 2)
        mm == IntAt(w, 16, 2)
        ss == IntAt(w, 19, 2)
        zh == IntAt(w, 23, 2)
        zm == IntAt(w, 25, 2)
    IN  IF /\ d \in 1..31
           /\ m # 0
           /\ hh <= 23
           /\ mm <= 59
           /\ ss <= 61
           /\ zm <= 59
           /\ ValidFields(y, m, d, hh, mm, ss)
           /\ zh * 60 + zm < 24 * 60
        THEN [ok |-> TRUE,
              value |-> [year |-> y, month |-> m, day |-> d, hour |-> hh,
                         minute |-> mm, second |-> ss,
                         tz |-> <<0 - (zh * 60 + zm)>>]]
        ELSE NoDate

\* datetime.strptime(w, "%d/%b/%Y") on the 11 characters parsing_1.py
\* captures: a naive datetime at midnight.
Strptime1(w) ==
    LET d == IntAt(w, 1, 2)
        m == MonthNumber(SubSeq(w, 4, 6))
        y == IntAt(w, 8, 4)
    IN  IF d \in 1..31 /\ m # 0 /\ ValidFields(y, m, d, 0, 0, 0)
        THEN [ok |-> TRUE,
              value |-> [year |-> y, month |-> m, day |-> d, hour |-> 0,
                         minute |-> 0, second |-> 0, tz |-> <<>>]]
        ELSE NoDate

\* datetime.date()
DateOf(dt) == <<dt.year, dt.month, dt.day>>

\* The instant of a datetime as <<day, second of the day>>, in UTC for an
\* aware datetime: what the comparison of two datetimes compares.
Instant(dt) ==
    LET off == IF dt.tz = <<>> THEN 0 ELSE dt.tz[1]
        secs == dt.hour * 3600 + dt.minute * 60 + dt.second - off * 60
    IN  <<Ymd2Ord(dt.year, dt.month, dt.day) + (secs \div 86400), secs % 86400>>

\* a < b on datetimes.
Before(a, b) ==
    LET x == Instant(a)
        y == Instant(b)
    IN  x[1] < y[1] \/ (x[1] = y[1] /\ x[2] < y[2])

\* datetime.replace(month=m): ok is FALSE where it raises ValueError.
ReplaceMonth(dt, m) ==
    IF ValidFields(dt.year, m, dt.day, dt.hour, dt.minute, dt.second)
    THEN [ok |-> TRUE, value |-> [dt EXCEPT !.month = m]]
    ELSE NoDate

\* The ordinal of the Monday of ISO week 1 of year y.
IsoWeek1Monday(y) ==
    LET firstday == Ymd2Ord(y, 1, 1)
        firstweekday == (firstday + 6) % 7
    IN  IF firstweekday > 3 THEN firstday - firstweekday + 7
        ELSE firstday - firstweekday

\* date.isocalendar() without the weekday: <<ISO year, ISO week>>.
IsoWeek(day) ==
    LET y == day[1]
        today == Ymd2Ord(day[1], day[2], day[3])
        week == (today - IsoWeek1Monday(y)) \div 7
    IN  IF today < IsoWeek1Monday(y)
        THEN <<y - 1, ((today - IsoWeek1Monday(y - 1)) \div 7) + 1>>
        ELSE IF week >= 52 /\ today >= IsoWeek1Monday(y + 1)
        THEN <<y + 1, 1>>
        ELSE <<y, week + 1>>

(***************************************************************************)
(* list.sort, bisect_left and the dictionaries.  A dict is the sequence of *)
(* its items [key, val] in insertion order, the order Python iterates in.  *)
(***************************************************************************)

\* sorted(xs, key=...): keys[i] is the key of xs[i].  The sort is stable:
\* xs[i] goes after every element with an earlier key and after the
\* elements with an equal key that precede it.
SortByKey(xs, keys) ==
    LET rank(i) ==
            Cardinality({j \in 1..Len(xs) :
                \/ Before(keys[j], keys[i])
                \/ (~Before(keys[i], keys[j]) /\ j < i)})
    IN  [k \in 1..Len(xs) |-> xs[CHOOSE i \in 1..Len(xs) : rank(i) = k - 1]]

\* The loop of bisect_left over keys (0-based lo and hi, as in bisect.py).
RECURSIVE BisectLoop(_, _, _, _)
BisectLoop(keys, x, lo, hi) ==
    IF lo < hi
    THEN LET mid == (lo + hi) \div 2
         IN  IF Before(keys[mid + 1], x)
             THEN BisectLoop(keys, x, mid + 1, hi)
             ELSE BisectLoop(keys, x, lo, mid)
    ELSE lo

\* The loop of bisect_right, which goes past the keys equal to x: what
\* bisect_left must differ from.
RECURSIVE BisectRightLoop(_, _, _, _)
BisectRightLoop(keys, x, lo, hi) ==
    IF lo < hi
    THEN LET mid == (lo + hi) \div 2
         IN  IF Before(x, keys[mid + 1])
             THEN BisectRightLoop(keys, x, lo, mid)
             ELSE BisectRightLoop(keys, x, mid + 1, hi)
    ELSE lo

BisectRight(keys, x) == BisectRightLoop(keys, x, 0, Len(keys))

BisectLeft(keys, x) == BisectLoop(keys, x, 0, Len(keys))

DictHas(d, k) == \E n \in 1..Len(d) : d[n].key = k

\* The counting statement with its increment lost: d[k] = 1 in both
\* branches.
CountOnce(d, k) ==
    IF DictHas(d, k)
    THEN [n \in 1..Len(d) |->
             IF d[n].key = k THEN [d[n] EXCEPT !.val = 1] ELSE d[n]]
    ELSE Append(d, [key |-> k, val |-> 1])

\* if k in d: d[k] += 1  else: d[k] = 1
Count(d, k) ==
    IF DictHas(d, k)
    THEN [n \in 1..Len(d) |->
             IF d[n].key = k THEN [d[n] EXCEPT !.val = @ + 1] ELSE d[n]]
    ELSE Append(d, [key |-> k, val |-> 1])

(***************************************************************************)
(* The input texts: up to MaxLines lines, each one of the lines below and  *)
(* each ended by a newline (what open().read() or the decoded download    *)
(* hands to the scripts).                                                  *)
(***************************************************************************)
\* Scenario A of the specification: a '+' offset.
ScenarioA ==
    <<"1", "0", ".", "0", ".", "0", ".", "1", " ", "-", " ", "-", " ", "[",
      "0", "1", "/", "J", "a", "n", "/", "2", "0", "2", "0", ":", "0", "0",
      ":", "0", "0", ":", "0", "0", " ", "+", "0", "0", "0", "0", "]", " ",
      DQ, "G", "E", "T", " ", "/", " ", "H", "T", "T", "P", "/", "1", ".",
      "1", DQ, " ", "2", "0", "0", " ", "5", "1", "2">>

\* The same line with a '-' offset; it has an identity token.
ScenarioAMinus ==
    <<"1", "0", ".", "0", ".", "0", ".", "1", " ", "-", " ", "-", " ", "[",
      "0", "1", "/", "J", "a", "n", "/", "2", "0", "2", "0", ":", "0", "0",
      ":", "0", "0", ":", "0", "0", " ", "-", "0", "0", "0", "0", "]", " ",
      DQ, "G", "E", "T", " ", "/", " ", "H", "T", "T", "P", "/", "1", ".",
      "1", DQ, " ", "2", "0", "0", " ", "5", "1", "2">>

LineJul15 ==
    <<"h", " ", "-", " ", "[", "1", "5", "/", "J", "u", "l", "/", "2", "0",
      "2", "1", ":", "0", "0", ":", "0", "0", ":", "0", "0", " ", "-", "0",
      "0", "0", "0", "]", " ", DQ, "G", "E", "T", " ", "/", "a", DQ, " ",
      "2", "0", "0", " ", "5">>

LineJan20 ==
    <<"h", " ", "-", " ", "[", "2", "0", "/", "J", "a", "n", "/", "2", "0",
      "2", "1", ":", "0", "0", ":", "0", "0", ":", "0", "0", " ", "-", "0",
      "0", "0", "0", "]", " ", DQ, "G", "E", "T", " ", "/", "b", DQ, " ",
      "3", "0", "2", " ", "-">>

LineJan10 ==
    <<"h", " ", "-", " ", "[", "1", "0", "/", "J", "a", "n", "/", "2", "0",
      "2", "1", ":", "0", "0", ":", "0", "0", ":", "0", "0", " ", "-", "0",
      "0", "0", "0", "]", " ", DQ, "G", "E", "T", " ", "/", "a", DQ, " ",
      "4", "0", "4", " ", "5">>

\* 31 August has no counterpart six months earlier; status 000.
LineAug31 ==
    <<"h", " ", "-", " ", "[", "3", "1", "/", "A", "u", "g", "/", "2", "0",
      "2", "1", ":", "0", "0", ":", "0", "0", ":", "0", "0", " ", "-", "0",
      "0", "0", "0", "]", " ", DQ, "G", "E", "T", " ", "/", "b", DQ, " ",
      "0", "0", "0", " ", "5">>

\* 19:00 at -0500 on 14 January is 00:00 UTC on the 15th; status 999.
LineJan14West ==
    <<"h", " ", "-", " ", "[", "1", "4", "/", "J", "a", "n", "/", "2", "0",
      "2", "1", ":", "1", "9", ":", "0", "0", ":", "0", "0", " ", "-", "0",
      "5", "0", "0", "]", " ", DQ, "G", "E", "T", " ", "/", "b", DQ, " ",
      "9", "9", "9", " ", "5">>

\* The shape of the grammar with day 32.
LineDay32 ==
    <<"h", " ", "-", " ", "[", "3", "2", "/", "J", "a", "n", "/", "2", "0",
      "2", "1", ":", "0", "0", ":", "0", "0", ":", "0", "0", " ", "-", "0",
      "0", "0", "0", "]", " ", DQ, "G", "E", "T", " ", "/", "a", DQ, " ",
      "2", "0", "0", " ", "5">>

\* The shape of the grammar with an unknown month.
LineFoo ==
    <<"h", " ", "-", " ", "[", "1", "5", "/", "F", "o", "o", "/", "2", "0",
      "2", "1", ":", "0", "0", ":", "0", "0", ":", "0", "0", " ", "-", "0",
      "0", "0", "0", "]", " ", DQ, "G", "E", "T", " ", "/", "a", DQ, " ",
      "2", "0", "0", " ", "5">>

\* A request with embedded double quotes.
LineQuote ==
    <<"h", " ", "-", " ", "[", "1", "5", "/", "J", "u", "l", "/", "2", "0",
      "2", "1", ":", "0", "0", ":", "0", "0", ":", "0", "0", " ", "-", "0",
      "0", "0", "0", "]", " ", DQ, "G", "E", "T", " ", DQ, "/", "a", DQ,
      DQ, " ", "2", "0", "0", " ", "5">>

\* A request that is not closed on its line ...
LineOpen ==
    <<"h", " ", "-", " ", "[", "1", "5", "/", "J", "u", "l", "/", "2", "0",
      "2", "1", ":", "0", "0", ":", "0", "0", ":", "0", "0", " ", "-", "0",
      "0", "0", "0", "]", " ", DQ, "G", "E", "T", " ", "/", "a">>

\* ... and a line that closes it.
LineClose ==
    <<"b", DQ, " ", "2", "0", "0", " ", "5">>

Lines ==
    {ScenarioA, ScenarioAMinus, LineJul15, LineJan20,
     LineJan10, LineAug31, LineJan14West, LineDay32,
     LineFoo, LineQuote, LineOpen, LineClose}

Join(ls) ==
    LET RECURSIVE J(_)
        J(n) == IF n = 0 THEN <<>> ELSE J(n - 1) \o ls[n] \o <<NL>>
    IN  J(Len(ls))

Texts == {Join(ls) : ls \in UNION {[1..n -> Lines] : n \in 0..MaxLines}}

(***************************************************************************)
(* parsing_2.py: LogLine.                                                  *)
(***************************************************************************)

\* The constructor with groups 6 and 7 taken for each other.
LogLineSwapped(match) ==
    LET date == Strptime2(match.date)
    IN  IF date.ok
        THEN [ok |-> TRUE,
              value |-> [hostname |-> match.host,
                         identity |-> match.identity,
                         user_id |-> match.user,
                         date |-> date.value,
                         request |-> match.request,
                         status_code |-> match.size,
                         response_size |-> match.status]]
        ELSE [ok |-> FALSE]

\* LogLine.__init__ on a match: ok is FALSE where strptime raises.
LogLine(match) ==
    LET date == Strptime2(match.date)
    IN  IF date.ok
        THEN [ok |-> TRUE,
              value |-> [hostname |-> match.host,
                         identity |-> match.identity,
                         user_id |-> match.user,
                         date |-> date.value,
                         request |-> match.request,
                         status_code |-> match.status,
                         response_size |-> match.size]]
        ELSE [ok |-> FALSE]

\* The list comprehension of read_many_from: the LogLine of every match, in
\* order; raised is TRUE when a constructor raises, which ends it.
LogLines(log_matches) ==
    IF \A n \in 1..Len(log_matches) : LogLine(log_matches[n]).ok
    THEN [raised |-> FALSE,
          value |-> [n \in 1..Len(log_matches) |->
                        LogLine(log_matches[n]).value]]
    ELSE [raised |-> TRUE]

\* LogLine.read_many_from
ReadManyFrom(log_contents) == LogLines(FindIter(2, log_contents, 1))

\* Two decimal digits of n, and the four of a year from 1000 on.
Digits2(n) ==
    <<DigitChars[((n \div 10) % 10) + 1], DigitChars[(n % 10) + 1]>>

Digits4(n) == Digits2(n \div 100) \o Digits2(n % 100)

\* datetime.strftime(APACHE_LOG_DATE_FORMAT) of an aware datetime.
Strftime2(dt) ==
    LET off == dt.tz[1]
        mag == IF off < 0 THEN 0 - off ELSE off
    IN  Digits2(dt.day) \o <<"/">> \o MonthNames[dt.month] \o <<"/">>
        \o Digits4(dt.year) \o <<":">> \o Digits2(dt.hour) \o <<":">>
        \o Digits2(dt.minute) \o <<":">> \o Digits2(dt.second) \o <<" ">>
        \o <<IF off < 0 THEN "-" ELSE "+">>
        \o Digits2(mag \div 60) \o Digits2(mag % 60)

\* LogLine.__str__
Str(line) ==
    LET identity == IF line.identity # <<>> /\ line.identity[1] # <<>>
                    THEN <<" ">> \o line.identity[1]
                    ELSE <<>>
    IN  line.hostname \o identity \o <<" ">> \o line.user_id \o <<" ", "[">>
        \o Strftime2(line.date) \o <<"]", " ", DQ>> \o line.request
        \o <<DQ, " ">> \o line.status_code \o <<" ">> \o line.response_size

(***************************************************************************)
(* The state: the variables of main() of parsing_2.py and of the module    *)
(* body of parsing_1.py.  script says which of the two runs, pc is the     *)
(* statement the run is at and exc the exception that ended it.            *)
(***************************************************************************)
VARIABLES
    script, file_contents, pc, exc,
    log_lines, idx, week,
    requests_per_day, requests_per_week, requests_per_month,
    dates,
    last_date, six_months_before_last, six_months_index, last_six_months,
    Redirect_count, Error_count,
    requests_dict, max_requests, max_requests_name,
    min_requests, min_requests_name,
    month_files, output

vars ==
    <<script, file_contents, pc, exc, log_lines, idx, week,
      requests_per_day, requests_per_week, requests_per_month, dates,
      last_date, six_months_before_last, six_months_index, last_six_months,
      Redirect_count, Error_count, requests_dict, max_requests,
      max_requests_name, min_requests, min_requests_name, month_files,
      output>>

\* A name that is not bound yet.
Unbound == <<>>

Init ==
    /\ script \in {1, 2}
    /\ file_contents \in Texts
    /\ pc = "read"
    /\ exc = "none"
    /\ log_lines = Unbound
    /\ idx = 1
    /\ week = Unbound
    /\ requests_per_day = <<>>
    /\ requests_per_week = <<>>
    /\ requests_per_month = <<>>
    /\ dates = Unbound
    /\ last_date = Unbound
    /\ six_months_before_last = Unbound
    /\ six_months_index = 0
    /\ last_six_months = Unbound
    /\ Redirect_count = 0
    /\ Error_count = 0
    /\ requests_dict = <<>>
    /\ max_requests = Unbound
    /\ max_requests_name = Unbound
    /\ min_requests = Unbound
    /\ min_requests_name = Unbound
    /\ month_files = [m \in 1..12 |-> <<>>]
    /\ output = Unbound

Running(n, at) == script = n /\ pc = at /\ exc = "none"

\* parsing_2.py line 67: log_lines = LogLine.read_many_from(file_contents)
Read ==
    /\ Running(2, "read")
    /\ \E got \in {ReadManyFrom(file_contents)} :
           IF got.raised
           THEN /\ exc' = "ValueError"
                /\ UNCHANGED <<pc, log_lines>>
           ELSE /\ log_lines' = got.value
                /\ pc' = "count"
                /\ exc' = exc
    /\ UNCHANGED <<script, file_contents, idx, week, requests_per_day,
                   requests_per_week, requests_per_month, dates, last_date,
                   six_months_before_last, six_months_index, last_six_months,
                   Redirect_count, Error_count, requests_dict,
                   max_requests, max_requests_name, min_requests,
                   min_requests_name, month_files, output>>

\* The week the loop body counts log_lines[idx] under: isocalendar() is
\* called in the else branch of the per-day test only, so a line of a day
\* that is already counted leaves the variable week as it was.
WeekOf(line, seen, old_week) ==
    IF seen THEN old_week ELSE IsoWeek(DateOf(line.date))

\* parsing_2.py lines 76-129: one turn of the counting loop.
CountLine ==
    /\ Running(2, "count")
    /\ idx <= Len(log_lines)
    /\ LET line == log_lines[idx]
           day == DateOf(line.date)
           month == <<day[1], day[2]>>
       IN  /\ requests_per_day' = Count(requests_per_day, day)
           /\ week' = WeekOf(line, DictHas(requests_per_day, day), week)
           /\ requests_per_week' = Count(requests_per_week, week')
           /\ requests_per_month' = Count(requests_per_month, month)
    /\ idx' = idx + 1
    /\ UNCHANGED <<script, file_contents, pc, exc, log_lines, dates,
                   last_date, six_months_before_last, six_months_index,
                   last_six_months, Redirect_count, Error_count,
                   requests_dict, max_requests, max_requests_name, min_requests,
                   min_requests_name,
                   month_files, output>>

\* xs[-1] raises IndexError on an empty list.
HasLast(xs) == Len(xs) > 0

LineDates(ls) == [n \in 1..Len(ls) |-> ls[n].date]

\* parsing_2.py lines 132-133: sort by date, take the last date.
SortLines ==
    /\ Running(2, "count")
    /\ idx > Len(log_lines)
    /\ log_lines' = SortByKey(log_lines, LineDates(log_lines))
    /\ IF HasLast(log_lines')
       THEN /\ last_date' = log_lines'[Len(log_lines')].date
            /\ pc' = "cutoff"
            /\ exc' = exc
       ELSE /\ exc' = "IndexError"
            /\ UNCHANGED <<pc, last_date>>
    /\ UNCHANGED <<script, file_contents, idx, week, requests_per_day,
                   requests_per_week, requests_per_month, dates,
                   six_months_before_last, six_months_index, last_six_months,
                   Redirect_count, Error_count, requests_dict,
                   max_requests, max_requests_name, min_requests,
                   min_requests_name, month_files, output>>

\* last_date.replace(month=last_date.month - 6)
SixMonthsBefore(last) == ReplaceMonth(last, last.month - 6)

\* parsing_2.py line 135 and parsing_1.py line 47.
Cutoff ==
    /\ pc = "cutoff"
    /\ exc = "none"
    /\ LET got == SixMonthsBefore(last_date)
       IN  IF got.ok
           THEN /\ six_months_before_last' = got.value
                /\ pc' = "bisect"
                /\ exc' = exc
           ELSE /\ exc' = "ValueError"
                /\ UNCHANGED <<pc, six_months_before_last>>
    /\ UNCHANGED <<script, file_contents, log_lines, idx, week,
                   requests_per_day, requests_per_week, requests_per_month,
                   dates, last_date, six_months_index, last_six_months,
                   Redirect_count, Error_count, requests_dict,
                   max_requests, max_requests_name, min_requests,
                   min_requests_name, month_files, output>>

\* xs[n:] with a 0-based n.
SliceFrom(xs, n) == SubSeq(xs, n + 1, Len(xs))

\* parsing_2.py lines 141-146: the last six months.
Bisect ==
    /\ Running(2, "bisect")
    /\ six_months_index' =
          BisectLeft(LineDates(log_lines), six_months_before_last)
    /\ last_six_months' = SliceFrom(log_lines, six_months_index')
    /\ pc' = "status"
    /\ UNCHANGED <<script, file_contents, exc, log_lines, idx, week,
                   requests_per_day, requests_per_week, requests_per_month,
                   dates, last_date, six_months_before_last, Redirect_count,
                   Error_count, requests_dict, max_requests, max_requests_name,
                   min_requests, min_requests_name, month_files, output>>

\* parsing_2.py lines 153-160: the lines whose status starts with 3, and
\* those whose status starts with 4.
StatusClass(ls, digit) ==
    Cardinality({n \in 1..Len(ls) : ls[n].status_code[1] = digit})

Status ==
    /\ Running(2, "status")
    /\ Redirect_count' = StatusClass(log_lines, "3")
    /\ Error_count' = StatusClass(log_lines, "4")
    /\ pc' = "requests"
    /\ UNCHANGED <<script, file_contents, exc, log_lines, idx, week,
                   requests_per_day, requests_per_week, requests_per_month,
                   dates, last_date, six_months_before_last,
                   six_months_index, last_six_months, requests_dict,
                   max_requests, max_requests_name, min_requests,
                   min_requests_name, month_files, output>>

\* parsing_2.py lines 164-173 on the first n lines.
RECURSIVE Tally(_, _)
Tally(ls, n) ==
    IF n = 0 THEN <<>> ELSE Count(Tally(ls, n - 1), ls[n].request)

Requests ==
    /\ Running(2, "requests")
    /\ requests_dict' = Tally(log_lines, Len(log_lines))
    /\ pc' = "extremes"
    /\ UNCHANGED <<script, file_contents, exc, log_lines, idx, week,
                   requests_per_day, requests_per_week, requests_per_month,
                   dates, last_date, six_months_before_last,
                   six_months_index, last_six_months, Redirect_count,
                   Error_count, max_requests, max_requests_name,
                   min_requests, min_requests_name, month_files, output>>

\* The string 'start'.
Start == <<"s", "t", "a", "r", "t">>

\* The comparison with >= for >: the last of the requests that share the
\* largest count would win.
AtLeast(count, best) == count >= best

\* if requests_dict[request] > max_requests
Exceeds(count, best) == count > best

\* parsing_2.py lines 177-182 over the first n items of the dict.
RECURSIVE MaxLoop(_, _)
MaxLoop(d, n) ==
    IF n = 0 THEN [val |-> 0, name |-> Start]
    ELSE LET prev == MaxLoop(d, n - 1)
         IN  IF Exceeds(d[n].val, prev.val)
             THEN [val |-> d[n].val, name |-> d[n].key]
             ELSE prev

\* parsing_2.py lines 185-190; inf is TRUE while min_requests is still
\* float("inf"), which every count is below.
RECURSIVE MinLoop(_, _)
MinLoop(d, n) ==
    IF n = 0 THEN [inf |-> TRUE, val |-> 0, name |-> Start]
    ELSE LET prev == MinLoop(d, n - 1)
         IN  IF prev.inf \/ d[n].val < prev.val
             THEN [inf |-> FALSE, val |-> d[n].val, name |-> d[n].key]
             ELSE prev

Extremes ==
    /\ Running(2, "extremes")
    /\ LET most == MaxLoop(requests_dict, Len(requests_dict))
           least == MinLoop(requests_dict, Len(requests_dict))
       IN  /\ max_requests' = most.val
           /\ max_requests_name' = most.name
           /\ min_requests' = [inf |-> least.inf, val |-> least.val]
           /\ min_requests_name' = least.name
    /\ pc' = "split"
    /\ UNCHANGED <<script, file_contents, exc, log_lines, idx, week,
                   requests_per_day, requests_per_week, requests_per_month,
                   dates, last_date, six_months_before_last,
                   six_months_index, last_six_months, Redirect_count,
                   Error_count, requests_dict, month_files, output>>

\* The lines written to the file of month m: str(line) of each line of
\* that month, in the order of log_lines (the newline after each is the
\* boundary between the elements).
MonthLines(ls, m) ==
    LET RECURSIVE W(_)
        W(n) == IF n = 0 THEN <<>>
                ELSE IF ls[n].date.month = m THEN Append(W(n - 1), Str(ls[n]))
                ELSE W(n - 1)
    IN  W(Len(ls))

\* parsing_2.py lines 193-230: the twelve files, opened for appending.
Split ==
    /\ Running(2, "split")
    /\ month_files' =
          [m \in 1..12 |-> month_files[m] \o MonthLines(log_lines, m)]
    /\ pc' = "report"
    /\ UNCHANGED <<script, file_contents, exc, log_lines, idx, week,
                   requests_per_day, requests_per_week, requests_per_month,
                   dates, last_date, six_months_before_last,
                   six_months_index, last_six_months, Redirect_count,
                   Error_count, requests_dict, max_requests,
                   max_requests_name, min_requests, min_requests_name,
                   output>>

\* datetime.strftime(OUTPUT_DATE_FORMAT)
OutputDate(dt) ==
    Digits4(dt.year) \o <<"-">> \o Digits2(dt.month) \o <<"-">>
    \o Digits2(dt.day)

\* x / total raises ZeroDivisionError when total is 0.
CanDivideBy(total) == total # 0

\* parsing_2.py lines 148-150 and 233-241: what is printed.  A quotient is
\* <<numerator, denominator>>; its rendering as a percentage is not
\* modelled.
Report ==
    /\ Running(2, "report")
    /\ LET total_responses == Len(log_lines)
       IN  IF CanDivideBy(total_responses)
           THEN /\ output' =
                     [first_date_str |-> OutputDate(log_lines[1].date),
                      last_date_str |-> OutputDate(last_date),
                      last_six_months_str |->
                          OutputDate(six_months_before_last),
                      requests |-> Len(log_lines),
                      last_six_months |-> Len(last_six_months),
                      redirects |-> Redirect_count,
                      redirect_fraction |->
                          <<Redirect_count, total_responses>>,
                      errors |-> Error_count,
                      error_fraction |-> <<Error_count, total_responses>>,
                      most_requested |-> max_requests_name,
                      least_requested |-> min_requests_name]
                /\ pc' = "done"
                /\ exc' = exc
           ELSE /\ exc' = "ZeroDivisionError"
                /\ UNCHANGED <<pc, output>>
    /\ UNCHANGED <<script, file_contents, log_lines, idx, week,
                   requests_per_day, requests_per_week, requests_per_month,
                   dates, last_date, six_months_before_last,
                   six_months_index, last_six_months, Redirect_count,
                   Error_count, requests_dict, max_requests,
                   max_requests_name, min_requests, min_requests_name,
                   month_files>>

(***************************************************************************)
(* parsing_1.py.                                                           *)
(***************************************************************************)

\* Group 1 of a match of parsing_1.py's expression: the 11 characters of
\* the day, month and year.
Group1(m) == SubSeq(m.date, 1, 11)

Groups(ms) == [n \in 1..Len(ms) |-> Group1(ms[n])]

\* re.findall with one group: group 1 of every match.
FindAll(text) == Groups(FindIter(1, text, 1))

\* [datetime.strptime(date, APACHE_LOG_DATE_FORMAT) for date in date_strs]:
\* raised is TRUE when strptime raises.
Dates(date_strs) ==
    IF \A n \in 1..Len(date_strs) : Strptime1(date_strs[n]).ok
    THEN [raised |-> FALSE,
          value |-> [n \in 1..Len(date_strs) |-> Strptime1(date_strs[n]).value]]
    ELSE [raised |-> TRUE]

\* parsing_1.py lines 40-41.
FindDates ==
    /\ Running(1, "read")
    /\ \E got \in {Dates(FindAll(file_contents))} :
           IF got.raised
           THEN /\ exc' = "ValueError"
                /\ UNCHANGED <<pc, dates>>
           ELSE /\ dates' = got.value
                /\ pc' = "sort"
                /\ exc' = exc
    /\ UNCHANGED <<script, file_contents, log_lines, idx, week,
                   requests_per_day, requests_per_week, requests_per_month,
                   last_date, six_months_before_last, six_months_index,
                   last_six_months, Redirect_count, Error_count,
                   requests_dict, max_requests, max_requests_name,
                   min_requests, min_requests_name, month_files, output>>

\* parsing_1.py lines 44-45.
SortDates ==
    /\ Running(1, "sort")
    /\ dates' = SortByKey(dates, dates)
    /\ IF HasLast(dates')
       THEN /\ last_date' = dates'[Len(dates')]
            /\ pc' = "cutoff"
            /\ exc' = exc
       ELSE /\ exc' = "IndexError"
            /\ UNCHANGED <<pc, last_date>>
    /\ UNCHANGED <<script, file_contents, log_lines, idx, week,
                   requests_per_day, requests_per_week, requests_per_month,
                   six_months_before_last, six_months_index, last_six_months,
                   Redirect_count, Error_count, requests_dict, max_requests,
                   max_requests_name, min_requests, min_requests_name,
                   month_files, output>>

\* parsing_1.py lines 51-52.
BisectDates ==
    /\ Running(1, "bisect")
    /\ six_months_index' = BisectLeft(dates, six_months_before_last)
    /\ last_six_months' = SliceFrom(dates, six_months_index')
    /\ pc' = "report"
    /\ UNCHANGED <<script, file_contents, exc, log_lines, idx, week,
                   requests_per_day, requests_per_week, requests_per_month,
                   dates, last_date, six_months_before_last, Redirect_count,
                   Error_count, requests_dict, max_requests,
                   max_requests_name, min_requests, min_requests_name,
                   month_files, output>>

\* parsing_1.py lines 54-59.
ReportDates ==
    /\ Running(1, "report")
    /\ output' = [first_date_str |-> OutputDate(dates[1]),
                  last_date_str |-> OutputDate(last_date),
                  last_six_months_str |-> OutputDate(six_months_before_last),
                  requests |-> Len(dates),
                  last_six_months |-> Len(last_six_months)]
    /\ pc' = "done"
    /\ UNCHANGED <<script, file_contents, exc, log_lines, idx, week,
                   requests_per_day, requests_per_week, requests_per_month,
                   dates, last_date, six_months_before_last,
                   six_months_index, last_six_months, Redirect_count,
                   Error_count, requests_dict, max_requests,
                   max_requests_name, min_requests, min_requests_name,
                   month_files>>

Next ==
    \/ Read
    \/ CountLine
    \/ SortLines
    \/ Cutoff
    \/ Bisect
    \/ Status
    \/ Requests
    \/ Extremes
    \/ Split
    \/ Report
    \/ FindDates
    \/ SortDates
    \/ BisectDates
    \/ ReportDates

Spec == Init /\ [][Next]_vars

(***************************************************************************)
(* The properties.  The definitions of this section state what the         *)
(* specification asks for; they model no code.                             *)
(***************************************************************************)

\* The run of parsing_2.py is past read_many_from, which did not raise.
Parsed == script = 2 /\ pc # "read"

\* The lines the counting loop has dealt with.
Counted == 1..(idx - 1)

\* The statements after the cutoff is computed, after the window is, and
\* after the two extremes are.
AfterCutoff ==
    {"bisect", "status", "requests", "extremes", "split", "report", "done"}

AfterWindow == AfterCutoff \ {"bisect"}

AfterExtremes == {"split", "report", "done"}

Least(ps) == CHOOSE q \in ps : \A r \in ps : q <= r

\* The records of the matches whose date is a calendar date, in line
\* order: the lines of the text that conform to the grammar.
ValidRecords(text) ==
    LET ms == FindIter(2, text, 1)
        good == SelectSeq(ms, LAMBDA m : LogLine(m).ok)
    IN  [n \in 1..Len(good) |-> LogLine(good[n]).value]

\* C1: a line with the shape of the grammar and an invalid calendar value is
\* dropped by read_many_from without raising, and every other conforming
\* line of the text still yields its record.
C1_BadLineDropped ==
    script = 2 =>
        /\ (pc = "read" => exc = "none")
        /\ (pc = "count" /\ idx = 1 => log_lines = ValidRecords(file_contents))

\* C2: the line of scenario A, with its +0000 offset, yields exactly one
\* record with host 10.0.0.1, no identity, user id "-", status 200 and
\* size 512.
C2_ScenarioA ==
    (Parsed /\ file_contents = Join(<<ScenarioA>>)) =>
        /\ Len(log_lines) = 1
        /\ log_lines[1].hostname = <<"1", "0", ".", "0", ".", "0", ".", "1">>
        /\ log_lines[1].identity = <<>>
        /\ log_lines[1].user_id = <<"-">>
        /\ IntAt(log_lines[1].status_code, 1, 3) = 200
        /\ IntAt(log_lines[1].response_size, 1, 3) = 512

\* last six months earlier: the month less 6, in the year before when the
\* month is 1..6, the day clamped to the last day of the resulting month.
ClampedSixMonthsBefore(last) ==
    LET y == IF last.month > 6 THEN last.year ELSE last.year - 1
        m == IF last.month > 6 THEN last.month - 6 ELSE last.month + 6
        d == IF last.day > DaysInMonth(y, m) THEN DaysInMonth(y, m)
             ELSE last.day
    IN  [last EXCEPT !.year = y, !.month = m, !.day = d]

\* C3: for a non-empty sequence of records the cutoff computation does not
\* raise, and the cutoff is the last timestamp six months earlier, with the
\* year borrowed from and the day clamped.
C3_CutoffClamped ==
    /\ (pc = "cutoff" => exc = "none")
    /\ (pc \in AfterCutoff =>
            six_months_before_last = ClampedSixMonthsBefore(last_date))

\* The ISO week of the calendar date of a record.
OwnWeek(line) == IsoWeek(DateOf(line.date))

\* C4: the per-week mapping gives every ISO week exactly the number of
\* records whose own date falls in that week, whatever the order of the
\* records.
C4_WeekCounts ==
    Parsed =>
        /\ \A k \in Counted : DictHas(requests_per_week, OwnWeek(log_lines[k]))
        /\ \A n \in 1..Len(requests_per_week) :
              requests_per_week[n].val =
                  Cardinality({k \in Counted :
                      OwnWeek(log_lines[k]) = requests_per_week[n].key})

\* The sorted sequence of either script and the timestamps it is sorted by.
SortedItems == IF script = 1 THEN dates ELSE log_lines

SortedKeys == IF script = 1 THEN dates ELSE LineDates(log_lines)

\* C5: once the cutoff is computed, the window is the suffix of the sorted
\* sequence from the lower bound of the cutoff: every timestamp in it is
\* not before the cutoff, the one just before it (if any) is before the
\* cutoff, and none in it is before one outside it.  With the last record
\* on 2021-07-15 a record of 2021-01-20 is in the window and one of
\* 2021-01-10 is not.
C5_WindowIsSuffix ==
    pc \in AfterWindow =>
        /\ six_months_index \in 0..Len(SortedKeys)
        /\ last_six_months =
              SubSeq(SortedItems, six_months_index + 1, Len(SortedItems))
        /\ \A n \in (six_months_index + 1)..Len(SortedKeys) :
              ~Before(SortedKeys[n], six_months_before_last)
        /\ six_months_index >= 1 =>
              Before(SortedKeys[six_months_index], six_months_before_last)
        /\ \A i \in 1..six_months_index :
              \A j \in (six_months_index + 1)..Len(SortedKeys) :
                  ~Before(SortedKeys[j], SortedKeys[i])
        /\ DateOf(last_date) = <<2021, 7, 15>> =>
              \A n \in 1..Len(SortedKeys) :
                  /\ DateOf(SortedKeys[n]) = <<2021, 1, 20>> =>
                        n > six_months_index
                  /\ DateOf(SortedKeys[n]) = <<2021, 1, 10>> =>
                        n <= six_months_index

\* Scenario D has run: the last record is of 2021-07-15, a record of
\* 2021-01-10 is left out of the window and one of 2021-01-20 is in it.
C5_Witness ==
    /\ pc \in AfterWindow
    /\ DateOf(last_date) = <<2021, 7, 15>>
    /\ \E n \in 1..six_months_index :
          DateOf(SortedKeys[n]) = <<2021, 1, 10>>
    /\ \E n \in 1..Len(last_six_months) :
          DateOf(SortedKeys[six_months_index + n]) = <<2021, 1, 20>>

\* The number of lines of ls with the request r, the largest and the least
\* such number, and the request that has the number c and occurs first in
\* ls among those that do.
Occurrences(ls, r) == Cardinality({n \in 1..Len(ls) : ls[n].request = r})

MaxCount(ls) ==
    CHOOSE c \in {Occurrences(ls, ls[n].request) : n \in 1..Len(ls)} :
        \A n \in 1..Len(ls) : Occurrences(ls, ls[n].request) <= c

MinCount(ls) ==
    CHOOSE c \in {Occurrences(ls, ls[n].request) : n \in 1..Len(ls)} :
        \A n \in 1..Len(ls) : Occurrences(ls, ls[n].request) >= c

FirstWithCount(ls, c) ==
    ls[Least({n \in 1..Len(ls) : Occurrences(ls, ls[n].request) = c})].request

\* The parsed sequence in input line order, as it was before the sort.
ParsedOrder == ReadManyFrom(file_contents).value

C7_InsufficientData ==
    (Parsed /\ Len(log_lines) = 0) =>
        /\ requests_per_day = <<>>
        /\ requests_per_week = <<>>
        /\ requests_per_month = <<>>
        /\ exc \notin {"IndexError", "ZeroDivisionError"}

\* The sum of the first n values of a dict.
RECURSIVE SumVals(_, _)
SumVals(d, n) == IF n = 0 THEN 0 ELSE SumVals(d, n - 1) + d[n].val

\* C8: the values of each of the three mappings sum to the number of
\* records counted so far, and so to the number of records after the loop.
C8_CountsSum ==
    Parsed =>
        /\ SumVals(requests_per_day, Len(requests_per_day)) = idx - 1
        /\ SumVals(requests_per_week, Len(requests_per_week)) = idx - 1
        /\ SumVals(requests_per_month, Len(requests_per_month)) = idx - 1
        /\ idx > Len(log_lines) => idx - 1 = Len(log_lines)

\* The loop is over three records, two of the same day with one of another
\* week between them: the week that counts 2 is not the week of the day
\* that counts 2.
C8_Witness ==
    /\ Parsed
    /\ idx > Len(log_lines)
    /\ Len(log_lines) = 3
    /\ \E d \in 1..Len(requests_per_day) :
          \E w \in 1..Len(requests_per_week) :
              /\ requests_per_day[d].val = 2
              /\ requests_per_week[w].val = 2
              /\ requests_per_week[w].key # IsoWeek(requests_per_day[d].key)

\* C9, as claimed: the status of every record is a number of 100..599.
C9_StatusInRange ==
    Parsed =>
        \A n \in 1..Len(log_lines) :
            IntAt(log_lines[n].status_code, 1, 3) \in 100..599

\* C9, as amended: the status of every record is three decimal digits, 000
\* to 999, and the lines with the status 000 and 999 yield their record.
C9_StatusThreeDigits ==
    Parsed =>
        /\ \A n \in 1..Len(log_lines) :
              /\ Len(log_lines[n].status_code) = 3
              /\ \A k \in 1..3 : log_lines[n].status_code[k] \in Digit
        /\ file_contents = Join(<<LineAug31>>) =>
              /\ Len(log_lines) = 1
              /\ log_lines[1].status_code = <<"0", "0", "0">>
        /\ file_contents = Join(<<LineJan14West>>) =>
              /\ Len(log_lines) = 1
              /\ log_lines[1].status_code = <<"9", "9", "9">>

\* A text with a line of status 000 and one of status 999 is parsed.
C9_Witness ==
    /\ Parsed
    /\ \E n \in 1..Len(log_lines) :
          IntAt(log_lines[n].status_code, 1, 3) = 0
    /\ \E n \in 1..Len(log_lines) :
          IntAt(log_lines[n].status_code, 1, 3) = 999

\* The lines a list of matches covers, and whether a match stays on one
\* line with a request free of double quotes.
Spans(ms) == [n \in 1..Len(ms) |-> <<ms[n].start, ms[n].end>>]

OneLine(text, m) ==
    /\ \A k \in m.start..(m.end - 1) : text[k] # NL
    /\ \A k \in 1..Len(m.request) : m.request[k] # DQ

\* C10: the two expressions match the same lines of every text, each match
\* within one line and with a request free of double quotes.
C10_SameLines ==
    pc = "read" =>
        /\ Spans(FindIter(1, file_contents, 1)) =
              Spans(FindIter(2, file_contents, 1))
        /\ \A v \in {1, 2} :
              \A n \in 1..Len(FindIter(v, file_contents, 1)) :
                  OneLine(file_contents, FindIter(v, file_contents, 1)[n])

====
